---- MODULE Spec2Model ----
(***************************************************************************)
(* Model of the DriveCatalog component: the debounced search, the catalog  *)
(* snapshot loaded from GET /files, the refresh (POST /update) and the     *)
(* inline edit session (PATCH /files/{id}).                                *)
(*                                                                         *)
(* Strings that the code transforms (the draft tag string, the tags) are   *)
(* sequences of one-character strings; strings the code only copies (ids,  *)
(* names, search terms) are atomic.  Time advances in steps of Step ms.    *)
(***************************************************************************)
EXTENDS Integers, Sequences, FiniteSets, TLC

\* ---------------------------------------------------------------- bounds
MaxTasks == 2
MaxTagLen == 3
MaxRecordTags == 2
MaxRecordTagLen == 2

\* ------------------------------------------------------------- constants
Wait == 300
\* granularity of the model's clock: a third of the quiet period
Step == Wait \div 3

Null == "null"
NoParam == "<none>"

\* ----------------------------------------------------------- string model
Whitespace == {" ", "\t"}
Comma == ","

RECURSIVE Split(_)
Split(s) ==
  IF \A i \in 1..Len(s) : s[i] # Comma
    THEN <<s>>
    ELSE LET i == CHOOSE k \in 1..Len(s) :
                    s[k] = Comma /\ \A j \in 1..(k-1) : s[j] # Comma
         IN  <<SubSeq(s, 1, i-1)>> \o Split(SubSeq(s, i+1, Len(s)))

RECURSIVE TrimStart(_)
TrimStart(s) ==
  IF s # <<>> /\ Head(s) \in Whitespace THEN TrimStart(Tail(s)) ELSE s

RECURSIVE TrimEnd(_)
TrimEnd(s) ==
  IF s # <<>> /\ s[Len(s)] \in Whitespace
    THEN TrimEnd(SubSeq(s, 1, Len(s)-1)) ELSE s

\* variant: only leading whitespace is removed
TrimLeading(s) == TrimStart(s)

Trim(s) == TrimEnd(TrimStart(s))

MapTrim(ps) == [i \in 1..Len(ps) |-> Trim(ps[i])]

RECURSIVE FilterBoolean(_)
FilterBoolean(ps) ==
  IF ps = <<>> THEN <<>>
  ELSE IF Head(ps) = <<>> THEN FilterBoolean(Tail(ps))
  ELSE <<Head(ps)>> \o FilterBoolean(Tail(ps))

ParseTags(s) == FilterBoolean(MapTrim(Split(s)))

\* variant: the tags are joined with a space
SeparatorSpace == <<" ">>

\* the argument of join: ', '
Separator == <<Comma, " ">>

RECURSIVE Join(_)
Join(ts) ==
  IF ts = <<>> THEN <<>>
  ELSE IF Len(ts) = 1 THEN ts[1]
  ELSE ts[1] \o Separator \o Join(Tail(ts))

\* ------------------------------------------------------ catalog responses
File1 == [id |-> "f1", name |-> "n1", tags |-> << <<"x">>, <<"y">> >>]
File2 == [id |-> "f2", name |-> "n2", tags |-> <<>>]
File1b == [id |-> "f1", name |-> "n3", tags |-> << <<"y">> >>]

CatalogA == << [name |-> "Docs", files |-> <<File1, File2>>, subsections |-> <<>>] >>
CatalogB == << [name |-> "Docs", files |-> <<>>,
                subsections |-> << [name |-> "Sub", path |-> "Docs/Sub",
                                    files |-> <<File1b>>] >>] >>
Catalogs == {CatalogA, CatalogB}
EmptySnapshot == <<>>

SearchTerms == {"", "a"}
DraftNames == {"n3"}
DraftTags == { <<"y", Comma>> }

SeqRange(q) == {q[i] : i \in 1..Len(q)}

\* the records for which the Section component renders a FileCard
RenderedFiles(snap) ==
  UNION { SeqRange(sec.files) \cup
          UNION { SeqRange(sub.files) : sub \in SeqRange(sec.subsections) }
        : sec \in SeqRange(snap) }

EmptyForm == [name |-> "", tags |-> <<>>]

EmptyPayload == [name |-> "", tags |-> <<>>]

\* the URL of the list request: /files plus ?search=<term> unless term is ''
ListQuery(term) == IF term = "" THEN NoParam ELSE term

TriggerOutcomes == {"ok", "notok", "error"}
PatchOutcomes == {"ok", "notok", "error"}
\* a response with status "success" and its data, a response with another
\* status (whatever data it carries), a transport or parse error
ListOutcomes ==
  {[status |-> "success", data |-> d] : d \in Catalogs}
  \cup {[status |-> "nonsuccess", data |-> CatalogB],
        [status |-> "error", data |-> EmptySnapshot]}

\* ------------------------------------------------------------------ state
VARIABLES
  mounted,      \* the component is mounted
  sections,     \* useState<Section[]>: the snapshot
  searchTerm,   \* useState('')
  isLoading,    \* useState(false)
  editingFile,  \* useState<string | null>(null)
  editForm,     \* useState({name: '', tags: ''})
  timer,        \* the debounced function the effect holds: pending, elapsed, captured
                \* term; superseded: its call replaced a call that was still pending
  tasks,        \* the async calls suspended at an await, in the order in which
                \* their pending requests were issued
  started,      \* number of async calls started so far
  ev,           \* the step that produced this state and the request it issued
  sinceChange,  \* time since the last search-text change (capped at Wait)
  runFetches,   \* list requests issued by the debounce since the current run of changes began
  runQuery,     \* the query of the last of them
  lastOk,       \* the successful list response handled last
  received      \* the data of the successful list responses handled so far

vars == <<mounted, sections, searchTerm, isLoading, editingFile, editForm, timer,
          tasks, started, ev, sinceChange, runFetches, runQuery, lastOk,
          received>>

uiVars == <<sections, searchTerm, isLoading, editingFile, editForm>>
histVars == <<sinceChange, runFetches, runQuery, lastOk, received>>

\* the requests: GET /files[?search=], POST /update, PATCH /files/{id}
NoRequest == [method |-> "none", query |-> NoParam, file |-> Null,
              payload |-> EmptyPayload, by |-> "none"]
GetFiles(term, by) == [method |-> "GET", query |-> ListQuery(term), file |-> Null,
                       payload |-> EmptyPayload, by |-> by]
PostUpdate == [method |-> "POST", query |-> NoParam, file |-> Null,
               payload |-> EmptyPayload, by |-> "refresh"]
PatchFile(id, payload) == [method |-> "PATCH", query |-> NoParam, file |-> id,
                           payload |-> payload, by |-> "save"]

\* kind: the handler that ran; file: the record it was invoked on or whose
\* save it continues; by: the async call it continues ("debounce", "refresh",
\* "save"); out: the outcome of the response it handled (for the timer:
\* whether the call that fired had superseded a pending one); req: the request
\* it issued; was: the edited record id before the step
Event(kind, file, by, out, req) ==
  [kind |-> kind, file |-> file, by |-> by, out |-> out, req |-> req,
   was |-> editingFile]
UserEvent(kind, file) == Event(kind, file, "none", "none", NoRequest)

NoResponse == [data |-> EmptySnapshot, stale |-> FALSE]

\* a state setter called after the component was unmounted has no effect
SetState(old, new) == IF mounted THEN new ELSE old

\* ------------------------------------------------------------ async calls
\* kind: "debounce" (fetchData called by the timer), "refresh", "save";
\* pc: the request awaited ("trigger", "patch", "list"); term: the searchTerm
\* the closure captured; overtaken: a list request issued after this one has
\* already been answered successfully
Task(kind, pc, term, file) ==
  [kind |-> kind, pc |-> pc, term |-> term, file |-> file, overtaken |-> FALSE]

Remove(q, i) == SubSeq(q, 1, i-1) \o SubSeq(q, i+1, Len(q))

\* fetchData up to its await: the GET request of task t joins the requests in flight
IssueList(q, t) == Append(q, [t EXCEPT !.pc = "list", !.overtaken = FALSE])

ListInFlight == {i \in 1..Len(tasks) : tasks[i].pc = "list"}

\* --------------------------------------------------------------- debounce
IdleTimer == [pending |-> FALSE, elapsed |-> 0, term |-> "", superseded |-> FALSE]


\* debouncedFetch(): (re)starts the quiet period; fetchData of this render
\* closes over this render's searchTerm
\* variant: the debounced fetchData is the one of the first render, which
\* closes over the initial searchTerm
DebounceCallFirstRender(tm, term) ==
  [pending |-> TRUE, elapsed |-> 0, term |-> "", superseded |-> FALSE]

DebounceCall(tm, term) ==
  [pending |-> TRUE, elapsed |-> 0, term |-> term, superseded |-> FALSE]

\* variant: cancel() leaves the pending call scheduled
DebounceCancelKeepsPending(tm) == tm

\* debouncedFetch.cancel()
DebounceCancel(tm) == IdleTimer

\* variant: a pending call is not restarted, only its argument is replaced
EffectRerunNoRestart(tm, term) ==
  IF tm.pending THEN [tm EXCEPT !.term = term] ELSE DebounceCall(tm, term)

\* the effect on [searchTerm]: cleanup of the previous effect, then the new one
EffectRerun(tm, term) == DebounceCall(DebounceCancel(tm), term)

\* ------------------------------------------------------------------- init
Init ==
  /\ mounted = TRUE
  /\ sections = EmptySnapshot
  /\ searchTerm = ""
  /\ isLoading = FALSE
  /\ editingFile = Null
  /\ editForm = EmptyForm
  /\ timer = DebounceCall(IdleTimer, "")
  /\ tasks = <<>>
  /\ started = 0
  /\ ev = Event("mount", Null, "none", "none", NoRequest)
  /\ sinceChange = 0
  /\ runFetches = 0
  /\ runQuery = NoParam
  /\ lastOk = NoResponse
  /\ received = {}

\* ------------------------------------------------------- search / debounce
\* onChange of the search input: setSearchTerm, re-render, effect re-run
ChangeSearch(v) ==
  /\ mounted
  /\ v # searchTerm
  /\ searchTerm' = v
  /\ timer' = [EffectRerun(timer, v) EXCEPT !.superseded = timer.pending]
  /\ sinceChange' = 0
  /\ runFetches' = IF sinceChange < Wait THEN runFetches ELSE 0
  /\ runQuery' = IF sinceChange < Wait THEN runQuery ELSE NoParam
  /\ ev' = UserEvent("change", Null)
  /\ started' = started
  /\ UNCHANGED <<mounted, sections, isLoading, editingFile, editForm, tasks,
                 lastOk, received>>

\* time passes; a timer that is due fires before time passes further
Tick ==
  /\ mounted
  /\ sinceChange < Wait
  /\ ~(timer.pending /\ timer.elapsed >= Wait)
  /\ sinceChange' = sinceChange + Step
  /\ timer' = IF timer.pending
                THEN [timer EXCEPT !.elapsed = timer.elapsed + Step]
                ELSE timer
  /\ ev' = UserEvent("tick", Null)
  /\ started' = started
  /\ UNCHANGED <<mounted, uiVars, tasks, runFetches, runQuery, lastOk,
                 received>>

\* the quiet period is over: lodash invokes fetchData
TimerFire ==
  /\ timer.pending
  /\ timer.elapsed >= Wait
  /\ started < MaxTasks
  /\ timer' = IdleTimer
  /\ isLoading' = SetState(isLoading, TRUE)
  /\ tasks' = IssueList(tasks, Task("debounce", "start", timer.term, Null))
  /\ runFetches' = runFetches + 1
  /\ runQuery' = ListQuery(timer.term)
  /\ ev' = Event("fire", Null, "debounce",
                 IF timer.superseded THEN "superseded" ELSE "none",
                 GetFiles(timer.term, "debounce"))
  /\ started' = started + 1
  /\ UNCHANGED <<mounted, sections, searchTerm, editingFile, editForm,
                 sinceChange, lastOk, received>>

\* teardown: the effect's cleanup cancels the pending debounced call; the
\* component's state is discarded, the requests in flight are not cancelled
Unmount ==
  /\ mounted
  /\ mounted' = FALSE
  /\ timer' = DebounceCancel(timer)
  /\ sections' = EmptySnapshot
  /\ searchTerm' = ""
  /\ isLoading' = FALSE
  /\ editingFile' = Null
  /\ editForm' = EmptyForm
  /\ sinceChange' = 0
  /\ runFetches' = 0
  /\ runQuery' = NoParam
  /\ lastOk' = NoResponse
  /\ received' = {}
  /\ ev' = Event("unmount", Null, "none",
                 IF timer.pending THEN "cancelled" ELSE "none", NoRequest)
  /\ started' = started
  /\ UNCHANGED tasks

\* ---------------------------------------------------------------- refresh
\* handleRefresh up to its first await; the button is disabled while loading
Refresh ==
  /\ mounted
  /\ ~isLoading
  /\ started < MaxTasks
  /\ isLoading' = TRUE
  /\ tasks' = Append(tasks, Task("refresh", "trigger", searchTerm, Null))
  /\ ev' = Event("refresh", Null, "refresh", "none", PostUpdate)
  /\ started' = started + 1
  /\ UNCHANGED <<mounted, sections, searchTerm, editingFile, editForm, timer,
                 histVars>>

\* await fetch(.../update) rejects on a transport error only; the response
\* is not inspected
TriggerThrows(out) == out = "error"

\* the POST /update response arrives
TriggerResponse(i, out) ==
  LET t == tasks[i] IN
  /\ t.pc = "trigger"
  /\ IF TriggerThrows(out)
       THEN /\ isLoading' = SetState(isLoading, FALSE)
            /\ tasks' = Remove(tasks, i)
       ELSE /\ isLoading' = SetState(isLoading, TRUE)
            /\ tasks' = IssueList(Remove(tasks, i), t)
  /\ ev' = Event("trigger", t.file, t.kind, out,
                 IF TriggerThrows(out) THEN NoRequest ELSE GetFiles(t.term, t.kind))
  /\ started' = started
  /\ UNCHANGED <<mounted, sections, searchTerm, editingFile, editForm, timer,
                 histVars>>

\* ------------------------------------------------------------ edit session
Seed(file) == [name |-> file.name, tags |-> Join(file.tags)]

\* variant: a draft in progress is kept
StartEditingFormKeep(form, file) == IF form # EmptyForm THEN form ELSE Seed(file)

\* startEditing(file)
StartEditingId(cur, file) == file.id
StartEditingForm(form, file) == Seed(file)

\* the Edit2 button of a card that is not in Editing
StartEditing(file) ==
  /\ mounted
  /\ file \in RenderedFiles(sections)
  /\ editingFile # file.id
  /\ editingFile' = StartEditingId(editingFile, file)
  /\ editForm' = StartEditingForm(editForm, file)
  /\ ev' = UserEvent("begin", file.id)
  /\ started' = started
  /\ UNCHANGED <<mounted, sections, searchTerm, isLoading, timer, tasks,
                 histVars>>

\* a card is rendered in Editing for the edited id
EditingCard == \E f \in RenderedFiles(sections) : f.id = editingFile

\* variant: the draft is left as it is
CancelEditingFormKeep(form) == form

\* cancelEditing()
CancelEditingId(cur) == Null
CancelEditingForm(form) == EmptyForm

\* the X button of the card in Editing
CancelEditing ==
  /\ mounted
  /\ EditingCard
  /\ editingFile' = CancelEditingId(editingFile)
  /\ editForm' = CancelEditingForm(editForm)
  /\ ev' = UserEvent("cancel", editingFile)
  /\ started' = started
  /\ UNCHANGED <<mounted, sections, searchTerm, isLoading, timer, tasks, histVars>>

\* variant: the new draft is built without the previous one
SetEditFormFieldNoSpread(prev, field, v) == [EmptyForm EXCEPT ![field] = v]

\* setEditForm(prev => ({ ...prev, [field]: value }))
SetEditFormField(prev, field, v) == [prev EXCEPT ![field] = v]

\* onChange of the name input
UpdateName(v) ==
  /\ mounted
  /\ EditingCard
  /\ v # editForm.name
  /\ editForm' = SetEditFormField(editForm, "name", v)
  /\ ev' = UserEvent("name", editingFile)
  /\ started' = started
  /\ UNCHANGED <<mounted, sections, searchTerm, isLoading, editingFile, timer,
                 tasks, histVars>>

\* onChange of the tags input
UpdateTags(v) ==
  /\ mounted
  /\ EditingCard
  /\ v # editForm.tags
  /\ editForm' = SetEditFormField(editForm, "tags", v)
  /\ ev' = UserEvent("tags", editingFile)
  /\ started' = started
  /\ UNCHANGED <<mounted, sections, searchTerm, isLoading, editingFile, timer,
                 tasks, histVars>>

\* the body of the PATCH request
PatchPayload(form) == [name |-> form.name, tags |-> ParseTags(form.tags)]

\* the Check button: saveFileChanges(file) up to its await
Save(file) ==
  /\ mounted
  /\ file \in RenderedFiles(sections)
  /\ editingFile = file.id
  /\ started < MaxTasks
  /\ tasks' = Append(tasks, Task("save", "patch", searchTerm, file.id))
  /\ ev' = Event("save", file.id, "save", "none",
                 PatchFile(file.id, PatchPayload(editForm)))
  /\ started' = started + 1
  /\ UNCHANGED <<mounted, uiVars, timer, histVars>>

\* variant: every answered PATCH counts as a success
SaveAfterPatchAnyResponse(out) ==
  IF out # "error" THEN [reload |-> TRUE, exit |-> FALSE]
                   ELSE [reload |-> FALSE, exit |-> FALSE]

\* variant: on success the edit is exited and no reload is issued
SaveAfterPatchNoReload(out) ==
  IF out = "ok" THEN [reload |-> FALSE, exit |-> TRUE]
                ELSE [reload |-> FALSE, exit |-> FALSE]

\* what saveFileChanges does when the PATCH response arrives
SaveAfterPatch(out) ==
  IF out = "ok" THEN [reload |-> TRUE, exit |-> FALSE]
                ELSE [reload |-> FALSE, exit |-> FALSE]

\* the PATCH response arrives
PatchResponse(i, out) ==
  LET t == tasks[i]
      plan == SaveAfterPatch(out) IN
  /\ t.pc = "patch"
  /\ IF plan.reload
       THEN /\ isLoading' = SetState(isLoading, TRUE)
            /\ tasks' = IssueList(Remove(tasks, i), t)
       ELSE /\ isLoading' = isLoading
            /\ tasks' = Remove(tasks, i)
  /\ editingFile' = IF plan.exit
                      THEN SetState(editingFile, CancelEditingId(editingFile))
                      ELSE editingFile
  /\ editForm' = IF plan.exit
                   THEN SetState(editForm, CancelEditingForm(editForm))
                   ELSE editForm
  /\ ev' = Event("patch", t.file, t.kind, out,
                 IF plan.reload THEN GetFiles(t.term, t.kind) ELSE NoRequest)
  /\ started' = started
  /\ UNCHANGED <<mounted, sections, searchTerm, timer, histVars>>

\* ------------------------------------------------------------------- load
\* variant: a failed load clears the snapshot
FetchDataResultClear(old, out) ==
  IF out.status = "success" THEN out.data ELSE EmptySnapshot

\* variant: the response is appended to the snapshot
FetchDataResultMerge(old, out) ==
  IF out.status = "success" THEN old \o out.data ELSE old

\* variant: only the first successful response is applied
FetchDataResultFirst(old, out) ==
  IF out.status = "success" /\ old = EmptySnapshot THEN out.data ELSE old

\* fetchData after its await: the new value of sections
FetchDataResult(old, out) ==
  IF out.status = "success" THEN out.data ELSE old

\* variant: setIsLoading(false) sits inside the try block, skipped by a throw
FetchDataLoadingInTry(out) == out.status = "error"

\* fetchData after its try/catch: the new value of isLoading, for any outcome
FetchDataLoading(out) == FALSE

\* a successful answer to request i overtakes the list requests issued before it
Overtake(q, i) ==
  [j \in 1..Len(q) |->
     IF j < i /\ q[j].pc = "list" THEN [q[j] EXCEPT !.overtaken = TRUE] ELSE q[j]]

\* the GET /files response arrives (or the request fails); the caller's
\* continuation runs right after fetchData returns
ListResponse(i, out) ==
  LET t == tasks[i]
      ok == out.status = "success" /\ mounted IN
  /\ t.pc = "list"
  /\ sections' = SetState(sections, FetchDataResult(sections, out))
  /\ isLoading' = SetState(isLoading, IF t.kind = "refresh" THEN FALSE
                                      ELSE FetchDataLoading(out))
  /\ editingFile' = IF t.kind = "save"
                      THEN SetState(editingFile, CancelEditingId(editingFile))
                      ELSE editingFile
  /\ editForm' = IF t.kind = "save"
                   THEN SetState(editForm, CancelEditingForm(editForm))
                   ELSE editForm
  /\ tasks' = Remove(IF ok THEN Overtake(tasks, i) ELSE tasks, i)
  /\ lastOk' = IF ok THEN [data |-> out.data, stale |-> t.overtaken] ELSE lastOk
  /\ received' = IF ok THEN received \cup {out.data} ELSE received
  /\ ev' = Event("list", t.file, t.kind, out.status, NoRequest)
  /\ started' = started
  /\ UNCHANGED <<mounted, searchTerm, timer, sinceChange, runFetches,
                 runQuery>>

\* ------------------------------------------------------------------- spec
Next ==
  \/ \E v \in SearchTerms : ChangeSearch(v)
  \/ Tick
  \/ TimerFire
  \/ Unmount
  \/ Refresh
  \/ \E i \in 1..Len(tasks), out \in TriggerOutcomes : TriggerResponse(i, out)
  \/ \E f \in RenderedFiles(sections) : StartEditing(f)
  \/ CancelEditing
  \/ \E v \in DraftNames : UpdateName(v)
  \/ \E v \in DraftTags : UpdateTags(v)
  \/ \E f \in RenderedFiles(sections) : Save(f)
  \/ \E i \in 1..Len(tasks), out \in PatchOutcomes : PatchResponse(i, out)
  \/ \E i \in 1..Len(tasks), out \in ListOutcomes : ListResponse(i, out)

Spec == Init /\ [][Next]_vars

\* ================================================================ claims

\* C1: in a run of search-text changes each less than Wait after the previous
\* one, the debounce issues no list request while the run goes on and, once
\* the quiet period has passed and the timer has fired, exactly one, whose
\* query is the final search text (no search parameter for the empty text).
C1_OneFetchPerRun ==
  /\ runFetches <= 1
  /\ sinceChange < Wait => runFetches = 0
  /\ (mounted /\ sinceChange >= Wait /\ ~timer.pending) =>
        /\ runFetches = 1
        /\ runQuery = ListQuery(searchTerm)
  /\ (ev.kind = "fire") =>
        ev.req = GetFiles(searchTerm, "debounce") /\ sinceChange >= Wait

C1_Witness ==
  /\ ev.kind = "fire"
  /\ ev.out = "superseded"
  /\ runFetches = 1
  /\ searchTerm = ""
  /\ ev.req.query = NoParam

\* C2: the step that handles a failed load (transport error, unparsable
\* response, status other than "success") leaves the snapshot as it was.
C2_FailedLoadKeepsSnapshot ==
  [][(ev'.kind = "list" /\ ev'.out # "success") => sections' = sections]_vars

C2_Witness ==
  /\ ev.kind = "list"
  /\ ev.out = "error"
  /\ sections = CatalogA
  /\ mounted

\* C3: the snapshot is the initial empty sequence or exactly the data of one
\* successful list response, whatever the draft holds.
C3_SnapshotIsOneResponse ==
  /\ sections \in {EmptySnapshot} \cup received
  /\ received = {} => sections = EmptySnapshot

C3_Witness ==
  /\ sections = CatalogA
  /\ received = Catalogs
  /\ editingFile = "f1"
  /\ editForm = [name |-> "n3", tags |-> <<"y", Comma>>]

\* C4: overlapping loads are all issued, and the snapshot is the data of the
\* successful response handled last, also when that response answers a request
\* issued before one already answered.
C4_LastResponseWins ==
  received # {} => sections = lastOk.data

C4_Witness ==
  /\ lastOk.stale
  /\ sections = lastOk.data
  /\ received = Catalogs
  /\ ListInFlight = {}
  /\ mounted

\* C5: a refresh whose trigger request fails, by transport error or by a
\* non-success response, issues no list request and leaves the snapshot.
C5_FailedTriggerAborts ==
  [][(ev'.kind = "trigger" /\ ev'.out # "ok") =>
        (ev'.req = NoRequest /\ sections' = sections)]_vars

\* C6: the last step of a save or of a refresh either applies a successful
\* list response (resync) or leaves the snapshot, the edited record id and the
\* draft as they were; no save exits the edit without a resync.
FinalStep(e) ==
  /\ e.kind \in {"trigger", "patch", "list"}
  /\ e.by \in {"save", "refresh"}
  /\ e.req = NoRequest

C6_SucceedAndResyncOrUnchanged ==
  [][(mounted /\ FinalStep(ev')) =>
        \/ ev'.kind = "list" /\ ev'.out = "success" /\ sections' = lastOk'.data
        \/ /\ sections' = sections
           /\ editingFile' = editingFile
           /\ editForm' = editForm]_vars

TheFile(id) == CHOOSE f \in RenderedFiles(sections) : f.id = id

\* C7: at most one rendered record is in Editing and there is a draft only
\* while a record is edited; startEditing(A) while another record B is edited
\* always ends with A the edited record and the draft seeded from A's current
\* name and tags (B's edit is cancelled), never in any other outcome.
C7_SingleEditBeginCancelsOther ==
  /\ Cardinality({f \in RenderedFiles(sections) : f.id = editingFile}) <= 1
  /\ editingFile = Null => editForm = EmptyForm
  /\ (ev.kind = "begin" /\ ev.was # Null) =>
        /\ ev.was # ev.file
        /\ editingFile = ev.file
        /\ editForm = [name |-> TheFile(ev.file).name,
                       tags |-> Join(TheFile(ev.file).tags)]

C7_Witness ==
  /\ ev.kind = "begin"
  /\ ev.was = "f2"
  /\ editingFile = "f1"
  /\ editForm = [name |-> "n1", tags |-> <<"x", Comma, " ", "y">>]

\* C8: the step that handles a failed PATCH (transport error or non-OK
\* response) leaves the edited record id, the draft and the snapshot as they
\* were, issues no request and ends the save.
C8_FailedPatchKeepsEditing ==
  [][(ev'.kind = "patch" /\ ev'.out # "ok") =>
        /\ editingFile' = editingFile
        /\ editForm' = editForm
        /\ sections' = sections
        /\ ev'.req = NoRequest
        /\ Len(tasks') = Len(tasks) - 1
        /\ \A i \in 1..Len(tasks') : tasks'[i] \in {tasks[j] : j \in 1..Len(tasks)}]_vars

C8_Witness ==
  /\ ev.kind = "patch"
  /\ ev.out = "notok"
  /\ editingFile = "f1"
  /\ ev.file = "f1"
  /\ editForm = [name |-> "n3", tags |-> <<"y", Comma>>]
  /\ tasks = <<>>

\* C9: the step that handles an HTTP-OK PATCH response issues the list request
\* of the save and leaves the edit as it is; a save changes the edited record
\* id or the draft only in the step that handles the response to that reload.
C9_ReloadBeforeExit ==
  [][/\ (ev'.kind = "patch" /\ ev'.out = "ok") =>
          /\ ev'.req.method = "GET"
          /\ ev'.req.by = "save"
          /\ tasks' # <<>>
          /\ tasks'[Len(tasks')].pc = "list"
          /\ tasks'[Len(tasks')].kind = "save"
          /\ editingFile' = editingFile
          /\ editForm' = editForm
     /\ (ev'.by = "save" /\ (editingFile' # editingFile \/ editForm' # editForm)) =>
          /\ ev'.kind = "list"
          /\ editingFile' = Null
          /\ editForm' = EmptyForm
     /\ (mounted /\ ev'.kind = "list" /\ ev'.by = "save") =>
          (editingFile' = Null /\ editForm' = EmptyForm)]_vars

C9_Witness ==
  /\ ev.kind = "list"
  /\ ev.by = "save"
  /\ ev.out = "success"
  /\ ev.was = "f1"
  /\ ev.file = "f1"
  /\ editingFile = Null
  /\ editForm = EmptyForm

\* ------------------------------------------ the tag parser on its own
TagChars == {"x", "y", " ", "\t", Comma}
Example == <<"x", Comma, " ", "y", " ", Comma, " ", " ", Comma, " ", "z">>
TagInputs == UNION {[1..k -> TagChars] : k \in 0..MaxTagLen} \cup {Example}

\* a record is being edited and the user has typed any draft
InitTags ==
  /\ mounted = TRUE
  /\ sections = CatalogA
  /\ searchTerm = ""
  /\ isLoading = FALSE
  /\ editingFile \in {"f1", "f2"}
  /\ editForm \in [name : {"n1", "n3"}, tags : TagInputs]
  /\ timer = IdleTimer
  /\ tasks = <<>>
  /\ started = 0
  /\ ev = UserEvent("tags", editingFile)
  /\ sinceChange = Wait
  /\ runFetches = 1
  /\ runQuery = NoParam
  /\ lastOk = [data |-> CatalogA, stale |-> FALSE]
  /\ received = {CatalogA}

NextTags == \E f \in RenderedFiles(sections) : Save(f)

SpecTags == InitTags /\ [][NextTags]_vars

\* the pieces of s between commas, by position: each piece starts after a
\* comma (or at the start) and ends before the next comma (or at the end)
PieceStarts(s) == {0} \cup {i \in 1..Len(s) : s[i] = Comma}
PieceEnd(s, b) ==
  CHOOSE e \in (b+1)..(Len(s)+1) :
    /\ e = Len(s) + 1 \/ s[e] = Comma
    /\ \A k \in (b+1)..(e-1) : s[k] # Comma
Solid(s, b) == {k \in (b+1)..(PieceEnd(s, b)-1) : s[k] \notin Whitespace}
Min(S) == CHOOSE m \in S : \A k \in S : m <= k
Max(S) == CHOOSE m \in S : \A k \in S : m >= k
KeptStarts(s) == {b \in PieceStarts(s) : Solid(s, b) # {}}
ExpectedTags(s) ==
  [n \in 1..Cardinality(KeptStarts(s)) |->
     LET b == CHOOSE c \in KeptStarts(s) :
                Cardinality({d \in KeptStarts(s) : d <= c}) = n
     IN  SubSeq(s, Min(Solid(s, b)), Max(Solid(s, b)))]

\* C10: the tags of the PATCH payload are the comma-separated pieces of the
\* draft tag string, each trimmed of whitespace, the empty ones dropped, in
\* their order; no tag is empty or padded; the payload name is the draft name.
C10_PayloadTags ==
  (ev.kind = "save") =>
     LET p == ev.req.payload IN
     /\ ev.req.method = "PATCH"
     /\ ev.req.file = editingFile
     /\ p.name = editForm.name
     /\ p.tags = ExpectedTags(editForm.tags)
     /\ \A i \in 1..Len(p.tags) :
          /\ p.tags[i] # <<>>
          /\ p.tags[i][1] \notin Whitespace
          /\ p.tags[i][Len(p.tags[i])] \notin Whitespace
          /\ \A k \in 1..Len(p.tags[i]) : p.tags[i][k] # Comma
     /\ editForm.tags = Example => p.tags = << <<"x">>, <<"y">>, <<"z">> >>

C10_Witness ==
  /\ ev.kind = "save"
  /\ editForm.tags = Example
  /\ ev.req.payload = [name |-> "n3", tags |-> << <<"x">>, <<"y">>, <<"z">> >>]

\* C11: a step that issues a list request or the refresh trigger sets the
\* loading flag, the step that handles a list response (success, non-success
\* status or error) clears it, and whenever no list request and no trigger
\* request is in flight the loading flag is false.
C11_LoadingBrackets ==
  [][/\ (mounted' /\ ev'.req.method \in {"GET", "POST"}) => isLoading'
     /\ (mounted' /\ ev'.kind = "list") => ~isLoading'
     /\ (\A i \in 1..Len(tasks') : tasks'[i].pc = "patch") => ~isLoading']_vars

C11_Witness ==
  /\ ev.kind = "list"
  /\ ev.by = "debounce"
  /\ ev.out = "error"
  /\ mounted
  /\ tasks = <<>>
  /\ ~isLoading

\* C12: when the refresh trigger is answered successfully, the refresh issues
\* in that step exactly one list request, and the search term it carries is
\* the search text the component holds at that moment.
C12_RefreshListCarriesCurrentTerm ==
  (mounted /\ ev.kind = "trigger" /\ ev.out = "ok") =>
     /\ ev.req = GetFiles(searchTerm, "refresh")
     /\ tasks # <<>>
     /\ tasks[Len(tasks)].kind = "refresh"
     /\ tasks[Len(tasks)].pc = "list"

\* C13: sinceChange stops counting at Wait, so with no timer pending the
\* value Wait stands for every gap of Wait or more. When a change of the
\* search text comes after a gap longer than Wait (the quiet period is over
\* and the timer has run), the group of changes before the gap has produced
\* exactly one list request of the debounce, carrying the last text of that
\* group, and the change starts a new group with a fresh quiet period; the
\* request of a group is issued Wait after the group's last change, is the
\* group's first and carries the group's last text.
C13_OneFetchPerGroup ==
  [][/\ (ev'.kind = "change" /\ sinceChange >= Wait /\ ~timer.pending) =>
          /\ runFetches = 1
          /\ runQuery = ListQuery(searchTerm)
          /\ runFetches' = 0
          /\ timer'.pending /\ timer'.elapsed = 0 /\ timer'.term = searchTerm'
     /\ (ev'.kind = "fire") =>
          /\ sinceChange = Wait
          /\ runFetches = 0 /\ runFetches' = 1
          /\ ev'.req = GetFiles(searchTerm, "debounce")
          /\ ~timer'.pending]_vars

\* two groups: the request of the first (the mount, text "") is still in
\* flight when the second, of several changes ending in "a", issues its own
C13_Witness ==
  /\ ev.kind = "fire"
  /\ ev.out = "superseded"
  /\ ev.req = GetFiles("a", "debounce")
  /\ runFetches = 1
  /\ Len(tasks) = 2
  /\ tasks[1].kind = "debounce"
  /\ tasks[1].term = ""
  /\ tasks[2].kind = "debounce"
  /\ tasks[2].term = "a"

\* C14: a step of the name input or of the tags input replaces that field of
\* the draft and nothing else: the other field, the snapshot, the edited
\* record id, the loading flag, the search text and the requests in flight
\* are as before, and the step issues no request.
C14_DraftEditOnlyDraft ==
  [][(ev'.kind \in {"name", "tags"}) =>
        /\ editForm' # editForm
        /\ ev'.kind = "name" => editForm'.tags = editForm.tags
        /\ ev'.kind = "tags" => editForm'.name = editForm.name
        /\ sections' = sections
        /\ editingFile' = editingFile
        /\ isLoading' = isLoading
        /\ searchTerm' = searchTerm
        /\ tasks' = tasks
        /\ timer' = timer
        /\ ev'.req = NoRequest]_vars

C14_Witness ==
  /\ ev.kind = "tags"
  /\ editingFile = "f1"
  /\ editForm = [name |-> "n3", tags |-> <<"y", Comma>>]
  /\ sections = CatalogA
  /\ isLoading
  /\ tasks # <<>>

\* C15: the step of the cancel button ends the edit (no record is edited
\* afterwards) and discards the draft; the snapshot, the loading flag and the
\* requests in flight are as before, and the step issues no request.
C15_CancelDiscardsDraft ==
  [][(ev'.kind = "cancel") =>
        /\ editingFile # Null
        /\ editingFile' = Null
        /\ editForm' = EmptyForm
        /\ \A f \in RenderedFiles(sections') : f.id # editingFile'
        /\ sections' = sections
        /\ isLoading' = isLoading
        /\ tasks' = tasks
        /\ ev'.req = NoRequest]_vars

C15_Witness ==
  /\ ev.kind = "cancel"
  /\ ev.was = "f1"
  /\ editingFile = Null
  /\ editForm = EmptyForm
  /\ sections = CatalogA
  /\ tasks = <<>>
  /\ started = 1

\* C16: the teardown step leaves no debounced call scheduled, and after the
\* teardown no call is scheduled and the debounce issues no list request.
C16_TeardownCancelsDebounce ==
  [][/\ (ev'.kind = "unmount") => (~mounted' /\ ~timer'.pending)
     /\ ~mounted =>
          /\ ~timer.pending /\ ~timer'.pending
          /\ ev'.kind # "fire"
          /\ ev'.req.by # "debounce"]_vars

C16_Witness ==
  /\ ev.kind = "unmount"
  /\ ev.out = "cancelled"
  /\ ~mounted
  /\ ~timer.pending
  /\ tasks = <<>>
  /\ started = 0

\* --------------------------------------- the edit session on a loaded catalog
\* the state after the initial load was answered with CatalogA; no other
\* request has been made
InitLoaded ==
  /\ mounted = TRUE
  /\ sections = CatalogA
  /\ searchTerm = ""
  /\ isLoading = FALSE
  /\ editingFile = Null
  /\ editForm = EmptyForm
  /\ timer = IdleTimer
  /\ tasks = <<>>
  /\ started = 0
  /\ ev = Event("list", Null, "debounce", "success", NoRequest)
  /\ sinceChange = Wait
  /\ runFetches = 1
  /\ runQuery = NoParam
  /\ lastOk = [data |-> CatalogA, stale |-> FALSE]
  /\ received = {CatalogA}

\* begin, save, cancel and the arrival of the responses, in any interleaving
NextEdit ==
  \/ \E f \in RenderedFiles(sections) : StartEditing(f)
  \/ CancelEditing
  \/ \E f \in RenderedFiles(sections) : Save(f)
  \/ \E i \in 1..Len(tasks), out \in PatchOutcomes : PatchResponse(i, out)
  \/ \E i \in 1..Len(tasks), out \in ListOutcomes : ListResponse(i, out)

SpecEdit == InitLoaded /\ [][NextEdit]_vars

\* C17: at no time are two PATCH requests of this client in flight.
C17_OnePatchInFlight ==
  Cardinality({i \in 1..Len(tasks) : tasks[i].pc = "patch"}) <= 1

\* C18: the completion of a save ends only the edit session that issued it:
\* when the last response of save(B) is handled while another record A is
\* edited, A stays the edited record and A's draft is unchanged.
C18_SaveEndsOwnSessionOnly ==
  [][(/\ mounted
      /\ ev'.by = "save"
      /\ ev'.kind \in {"patch", "list"}
      /\ ev'.req = NoRequest
      /\ editingFile # Null
      /\ editingFile # ev'.file) =>
        (editingFile' = editingFile /\ editForm' = editForm)]_vars

\* C19: whenever a list request or a refresh trigger request is in flight the
\* loading flag is true, so the refresh button is disabled and no refresh
\* starts while a refresh or a load is in flight.
C19_LoadingWhileInFlight ==
  /\ (mounted /\ \E i \in 1..Len(tasks) : tasks[i].pc \in {"list", "trigger"})
        => isLoading
  /\ (ev.kind = "refresh") =>
        \A i \in 1..(Len(tasks) - 1) : tasks[i].pc \notin {"list", "trigger"}

\* ------------------------------------------- begin then save on any record
RecordChars == {"x", " ", Comma}
RecordTagValues == UNION {[1..k -> RecordChars] : k \in 0..MaxRecordTagLen}
RecordTags == UNION {[1..n -> RecordTagValues] : n \in 0..MaxRecordTags}
RecordCatalog(ts) ==
  << [name |-> "Docs",
      files |-> << [id |-> "f1", name |-> "n1", tags |-> ts] >>,
      subsections |-> <<>>] >>

\* the catalog was loaded with one record, whose tags are any strings
InitRecord ==
  /\ mounted = TRUE
  /\ sections \in {RecordCatalog(ts) : ts \in RecordTags}
  /\ searchTerm = ""
  /\ isLoading = FALSE
  /\ editingFile = Null
  /\ editForm = EmptyForm
  /\ timer = IdleTimer
  /\ tasks = <<>>
  /\ started = 0
  /\ ev = Event("list", Null, "debounce", "success", NoRequest)
  /\ sinceChange = Wait
  /\ runFetches = 1
  /\ runQuery = NoParam
  /\ lastOk = [data |-> sections, stale |-> FALSE]
  /\ received = {sections}

\* the draft is never changed between begin and save
NextRecord ==
  \/ \E f \in RenderedFiles(sections) : StartEditing(f)
  \/ \E f \in RenderedFiles(sections) : Save(f)

SpecRecord == InitRecord /\ [][NextRecord]_vars

\* a tag the round trip is claimed for: non-empty, no comma, no whitespace at
\* either end
CleanTag(t) ==
  /\ t # <<>>
  /\ \A k \in 1..Len(t) : t[k] # Comma
  /\ t[1] \notin Whitespace
  /\ t[Len(t)] \notin Whitespace

\* C20: for a record whose tags are all non-empty, without comma and without
\* leading or trailing whitespace, begin followed by save with no change of
\* the draft sends a PATCH for the record's id whose name is the record's
\* name and whose tags are the record's tags, in order.
C20_RoundTrip ==
  (ev.kind = "save") =>
     LET f == TheFile(ev.file) IN
     (\A i \in 1..Len(f.tags) : CleanTag(f.tags[i])) =>
        ev.req = PatchFile(f.id, [name |-> f.name, tags |-> f.tags])

C20_Witness ==
  /\ ev.kind = "save"
  /\ TheFile(ev.file).tags = << <<"x">>, <<"x", "x">> >>
  /\ editForm.tags = <<"x", Comma, " ", "x", "x">>
  /\ ev.req.payload = [name |-> "n1", tags |-> << <<"x">>, <<"x", "x">> >>]

====
